---- MODULE Spec2Model ----
(***************************************************************************)
(* MacSnap2HTML Enhanced: the directory scanner (DirectoryScanner), the    *)
(* serialisation of its node list into the generated document, the         *)
(* browsing engine embedded in that document, and the Browse and Generate  *)
(* handlers of the application window that start the scan.                 *)
(*                                                                         *)
(* Strings are sequences of one-character strings, so that prefix tests,   *)
(* lower-casing, ordering and substring search are computed, not assumed.  *)
(***************************************************************************)
EXTENDS Integers, Sequences, FiniteSets, TLC

VARIABLES
    fs,              \* the file system below root_path (environment)
    root_io,         \* what the OS answers for root_path itself
    generate_btn,    \* state of the GENERATE button of the application window
    workers,         \* running scan_and_generate threads
    lastScan,        \* flag and totals of the last scan that returned
    call,            \* a helper function called on its own: argument and result
    output_file,     \* what the path chosen for the document holds
    pc,              \* position of the scan-and-generate worker / the viewer
    include_hidden,  \* flag passed to scan_directory
    total_files, total_folders, total_size, items,   \* DirectoryScanner fields
    total_items, processed, item_id,                 \* locals of scan_directory
    stack,           \* active calls of process_directory
    progress,        \* arguments of the last progress_callback call
    fileData,        \* js_data embedded in the document
    itemMap,         \* window.itemMap
    currentFilter, currentSearch, expandedFolders, currentFolderId, allExpanded,
    navTree,         \* rows rendered in the navigation pane
    fileList,        \* content pane
    folderStats      \* statistics block of the content header

vars == <<fs, root_io, call, output_file, generate_btn, workers, lastScan, pc, include_hidden, total_files, total_folders, total_size, items,
          total_items, processed, item_id, stack, progress, fileData, itemMap,
          currentFilter, currentSearch, expandedFolders, currentFolderId,
          allExpanded, navTree, fileList, folderStats>>

scanVars == <<total_files, total_folders, total_size, items, total_items,
              processed, item_id, stack, progress, include_hidden>>

clientVars == <<itemMap, currentFilter, currentSearch, expandedFolders,
                currentFolderId, allExpanded, navTree, fileList, folderStats>>

(***************************************************************************)
(* Bounds                                                                  *)
(***************************************************************************)
\* largest number of entries below root_path in a modelled tree
MaxEntries == 4

\* largest number of entries of a tree whose document is opened in the
\* viewer; the document has at most as many records
MaxViewed == 3

(***************************************************************************)
(* Strings                                                                 *)
(***************************************************************************)
\* Python None / JavaScript null; also the only falsy id value
None == <<>>

\* truthiness of an id or a string: None, null and "" are falsy
Truthy(x) == x # <<>>

Ascii ==
    ("." :> 46) @@ ("$" :> 36) @@ ("~" :> 126) @@ ("_" :> 95) @@ ("0" :> 48) @@ ("1" :> 49) @@
    ("2" :> 50) @@ ("3" :> 51) @@ ("4" :> 52) @@ ("5" :> 53) @@ ("6" :> 54) @@ ("7" :> 55) @@
    ("8" :> 56) @@ ("9" :> 57) @@ ("A" :> 65) @@ ("B" :> 66) @@ ("C" :> 67) @@ ("D" :> 68) @@
    ("E" :> 69) @@ ("F" :> 70) @@ ("G" :> 71) @@ ("H" :> 72) @@ ("I" :> 73) @@ ("J" :> 74) @@
    ("K" :> 75) @@ ("L" :> 76) @@ ("M" :> 77) @@ ("N" :> 78) @@ ("O" :> 79) @@ ("P" :> 80) @@
    ("Q" :> 81) @@ ("R" :> 82) @@ ("S" :> 83) @@ ("T" :> 84) @@ ("U" :> 85) @@ ("V" :> 86) @@
    ("W" :> 87) @@ ("X" :> 88) @@ ("Y" :> 89) @@ ("Z" :> 90) @@ ("a" :> 97) @@ ("b" :> 98) @@
    ("c" :> 99) @@ ("d" :> 100) @@ ("e" :> 101) @@ ("f" :> 102) @@ ("g" :> 103) @@ ("h" :> 104) @@
    ("i" :> 105) @@ ("j" :> 106) @@ ("k" :> 107) @@ ("l" :> 108) @@ ("m" :> 109) @@ ("n" :> 110) @@
    ("o" :> 111) @@ ("p" :> 112) @@ ("q" :> 113) @@ ("r" :> 114) @@ ("s" :> 115) @@ ("t" :> 116) @@
    ("u" :> 117) @@ ("v" :> 118) @@ ("w" :> 119) @@ ("x" :> 120) @@ ("y" :> 121) @@ ("z" :> 122)

UpperToLower ==
    ("A" :> "a") @@ ("B" :> "b") @@ ("C" :> "c") @@ ("D" :> "d") @@ ("E" :> "e") @@ ("F" :> "f") @@
    ("G" :> "g") @@ ("H" :> "h") @@ ("I" :> "i") @@ ("J" :> "j") @@ ("K" :> "k") @@ ("L" :> "l") @@
    ("M" :> "m") @@ ("N" :> "n") @@ ("O" :> "o") @@ ("P" :> "p") @@ ("Q" :> "q") @@ ("R" :> "r") @@
    ("S" :> "s") @@ ("T" :> "t") @@ ("U" :> "u") @@ ("V" :> "v") @@ ("W" :> "w") @@ ("X" :> "x") @@
    ("Y" :> "y") @@ ("Z" :> "z")

\* str.lower / String.prototype.toLowerCase on the characters in use
lower(s) ==
    [i \in 1..Len(s) |-> IF s[i] \in DOMAIN UpperToLower THEN UpperToLower[s[i]] ELSE s[i]]

\* str.startswith with a one-character prefix
startswith(s, c) == Len(s) > 0 /\ s[1] = c

\* a < b for Python strings (code-point order, a proper prefix is smaller)
StrLess(a, b) ==
    \E k \in 1..(Len(b)) :
        /\ \A j \in 1..(k-1) : j <= Len(a) /\ a[j] = b[j]
        /\ \/ Len(a) = k - 1
           \/ Len(a) >= k /\ Ascii[a[k]] < Ascii[b[k]]

\* String.prototype.includes
includes(s, t) ==
    \E i \in 0..(Len(s) - Len(t)) : \A j \in 1..Len(t) : s[i + j] = t[j]

\* os.path.splitext(name)[1]: from the last dot, unless only dots precede it
splitext_ext(name) ==
    LET dots == {i \in 1..Len(name) : name[i] = "."}
    IN  IF dots = {} THEN <<>>
        ELSE LET dotIndex == CHOOSE i \in dots : \A j \in dots : j <= i
             IN  IF \E k \in 1..(dotIndex - 1) : name[k] # "."
                 THEN SubSeq(name, dotIndex, Len(name))
                 ELSE <<>>

\* the sum of f over a finite set
RECURSIVE SumOver(_, _)
SumOver(S, f) ==
    IF S = {} THEN 0
    ELSE LET x == CHOOSE y \in S : TRUE IN f[x] + SumOver(S \ {x}, f)

\* the elements of a sequence
Range(s) == {s[i] : i \in 1..Len(s)}

\* the subsequence of s of the elements that satisfy Test
RECURSIVE SelectIds(_, _)
SelectIds(s, keep) ==
    IF s = <<>> THEN <<>>
    ELSE (IF Head(s) \in keep THEN <<Head(s)>> ELSE <<>>) \o SelectIds(Tail(s), keep)

(***************************************************************************)
(* Size/Classifier                                                         *)
(***************************************************************************)
icon_map ==
    (<<".","p","d","f">> :> "pdf") @@ (<<".","d","o","c">> :> "word") @@ (<<".","d","o","c","x">> :> "word") @@
    (<<".","t","x","t">> :> "text") @@ (<<".","r","t","f">> :> "text") @@ (<<".","o","d","t">> :> "text") @@
    (<<".","p","a","g","e","s">> :> "text") @@ (<<".","x","l","s">> :> "excel") @@ (<<".","x","l","s","x">> :> "excel") @@
    (<<".","c","s","v">> :> "excel") @@ (<<".","n","u","m","b","e","r","s">> :> "excel") @@ (<<".","p","p","t">> :> "powerpoint") @@
    (<<".","p","p","t","x">> :> "powerpoint") @@ (<<".","k","e","y">> :> "powerpoint") @@ (<<".","j","p","g">> :> "image") @@
    (<<".","j","p","e","g">> :> "image") @@ (<<".","p","n","g">> :> "image") @@ (<<".","g","i","f">> :> "image") @@
    (<<".","b","m","p">> :> "image") @@ (<<".","t","i","f","f">> :> "image") @@ (<<".","s","v","g">> :> "image") @@
    (<<".","i","c","o">> :> "image") @@ (<<".","w","e","b","p">> :> "image") @@ (<<".","h","e","i","c">> :> "image") @@
    (<<".","m","p","4">> :> "video") @@ (<<".","a","v","i">> :> "video") @@ (<<".","m","o","v">> :> "video") @@
    (<<".","m","k","v">> :> "video") @@ (<<".","w","m","v">> :> "video") @@ (<<".","f","l","v">> :> "video") @@
    (<<".","w","e","b","m">> :> "video") @@ (<<".","m","4","v">> :> "video") @@ (<<".","m","p","3">> :> "audio") @@
    (<<".","w","a","v">> :> "audio") @@ (<<".","m","4","a">> :> "audio") @@ (<<".","f","l","a","c">> :> "audio") @@
    (<<".","a","a","c">> :> "audio") @@ (<<".","o","g","g">> :> "audio") @@ (<<".","w","m","a">> :> "audio") @@
    (<<".","z","i","p">> :> "archive") @@ (<<".","r","a","r">> :> "archive") @@ (<<".","7","z">> :> "archive") @@
    (<<".","t","a","r">> :> "archive") @@ (<<".","g","z">> :> "archive") @@ (<<".","b","z","2">> :> "archive") @@
    (<<".","d","m","g">> :> "archive") @@ (<<".","p","y">> :> "code") @@ (<<".","j","s">> :> "code") @@
    (<<".","h","t","m","l">> :> "code") @@ (<<".","c","s","s">> :> "code") @@ (<<".","p","h","p">> :> "code") @@
    (<<".","j","a","v","a">> :> "code") @@ (<<".","c","p","p">> :> "code") @@ (<<".","c">> :> "code") @@
    (<<".","s","w","i","f","t">> :> "code") @@ (<<".","g","o">> :> "code") @@ (<<".","r","b">> :> "code") @@
    (<<".","j","s","o","n">> :> "code") @@ (<<".","e","x","e">> :> "executable") @@ (<<".","a","p","p">> :> "executable") @@
    (<<".","d","e","b">> :> "executable") @@ (<<".","r","p","m">> :> "executable") @@ (<<".","m","s","i">> :> "executable")

\* get_file_icon_class(file_path, is_dir)
get_file_icon_class(name, is_dir) ==
    IF is_dir THEN "folder"
    ELSE LET ext == lower(splitext_ext(name))
         IN  IF ext \in DOMAIN icon_map THEN icon_map[ext] ELSE "file"

(***************************************************************************)
(* The file system below root_path.  An entry is a path (the names from    *)
(* root_path down), a kind, a byte length and what the OS answers for it:  *)
(* "ok", "nostat" (stat fails: isdir, isfile, getsize all fail), "nolist"   *)
(* (a directory that can be stat-ed but not listed) or "symlink" (a        *)
(* symbolic link to a directory: isdir, stat and listdir follow it,        *)
(* os.walk lists it among the directories and does not descend into it).   *)
(***************************************************************************)
n_sub     == <<"s","u","b">>
n_in      == <<"i","n">>
n_hid     == <<".","h","i","d">>
n_dollar  == <<"$","d">>
n_Zed     == <<"Z","e","d">>
n_apng    == <<"a",".","p","n","g">>
n_BTXT    == <<"B",".","T","X","T">>
n_secret  == <<".","s","e","c","r","e","t">>
n_tilde   == <<"~","t">>
n_cmp3    == <<"c",".","m","p","3">>
n_xmov    == <<"x",".","m","o","v">>
n_visible == <<"v","i","s","i","b","l","e",".","t","x","t">>
n_lnk     == <<"l","n","k">>
n_ln      == <<"l","n">>
n_y       == <<"y">>

Entry(p, k, sz, io) == [path |-> p, kind |-> k, size |-> sz, io |-> io]

\* the entries a modelled tree is drawn from; file sizes are distinct powers
\* of two, so that two different sets of files never have the same sum
Universe ==
    { Entry(<<n_sub>>, "dir", 0, "ok"),
      Entry(<<n_sub, n_apng>>, "file", 1, "ok"),
      Entry(<<n_sub, n_BTXT>>, "file", 2, "ok"),
      Entry(<<n_sub, n_secret>>, "file", 4, "ok"),
      Entry(<<n_sub, n_tilde>>, "file", 8, "ok"),
      Entry(<<n_sub, n_in>>, "dir", 0, "ok"),
      Entry(<<n_sub, n_in, n_cmp3>>, "file", 16, "ok"),
      Entry(<<n_hid>>, "dir", 0, "ok"),
      Entry(<<n_hid, n_xmov>>, "file", 32, "ok"),
      Entry(<<n_dollar>>, "dir", 0, "ok"),
      Entry(<<n_visible>>, "file", 128, "ok"),
      Entry(<<n_secret>>, "file", 256, "ok"),
      Entry(<<n_sub, n_lnk>>, "file", 512, "nostat"),
      Entry(<<n_Zed>>, "dir", 0, "nolist"),
      Entry(<<n_ln>>, "dir", 0, "symlink"),
      Entry(<<n_ln, n_y>>, "file", 64, "ok") }

\* root_path itself
RootPath == <<>>

ParentPath(p) == SubSeq(p, 1, Len(p) - 1)

BaseName(p) == p[Len(p)]

\* every entry lies in a directory of the tree
WellFormed(S) ==
    \A e \in S : Len(e.path) > 1 =>
        \E d \in S : d.path = ParentPath(e.path) /\ d.kind = "dir"

Trees == {S \in SUBSET Universe : Cardinality(S) <= MaxEntries /\ WellFormed(S)}

\* the entries directly inside directory p
ChildEntries(p) == {e \in fs : Len(e.path) = Len(p) + 1 /\ ParentPath(e.path) = p}

\* os.listdir / os.scandir of p succeeds
Listable(p) ==
    \/ p = RootPath /\ root_io = "ok"
    \/ \E d \in fs : d.path = p /\ d.kind = "dir" /\ d.io \in {"ok", "symlink"}

\* variant of IsExcludedName: the test for a leading '.' is missing
IsExcludedName_NoDotTest(name) ==
    startswith(name, "~") \/ startswith(name, "$")

\* the filter of the population pass and of the files of the counting pass
IsExcludedName(name) ==
    startswith(name, ".") \/ startswith(name, "~") \/ startswith(name, "$")

\* the counting pass of scan_directory: os.walk with in-place pruning
RECURSIVE CountItems(_, _)
CountItems(p, hidden) ==
    IF ~Listable(p) THEN 0
    ELSE LET ds   == {e \in ChildEntries(p) : e.kind = "dir"}
             fl   == {e \in ChildEntries(p) : e.kind = "file"}
             dirs == IF ~hidden
                     THEN {d \in ds : ~startswith(BaseName(d.path), ".")}
                     ELSE ds
             files == IF ~hidden
                      THEN {f \in fl : ~IsExcludedName(BaseName(f.path))}
                      ELSE fl
             below == [d \in dirs |-> IF d.io = "symlink" THEN 0
                                      ELSE CountItems(d.path, hidden)]
         IN  Cardinality(dirs) + Cardinality(files) + SumOver(dirs, below)

\* DirectoryScanner.calculate_folder_size
RECURSIVE calculate_folder_size(_)
calculate_folder_size(p) ==
    IF ~Listable(p) THEN 0
    ELSE LET ds    == {e \in ChildEntries(p) : e.kind = "dir"}
             fl    == {e \in ChildEntries(p) : e.kind = "file"}
             sized == {f \in fl : /\ ~startswith(BaseName(f.path), "~")
                                  /\ ~startswith(BaseName(f.path), "$")
                                  /\ f.io = "ok"}
             own   == [f \in sized |-> f.size]
             below == [d \in ds |-> IF d.io = "symlink" THEN 0
                                    ELSE calculate_folder_size(d.path)]
         IN  SumOver(sized, own) + SumOver(ds, below)

\* the names process_directory keeps after os.listdir and the hidden filter
ListedNames(p, hidden) ==
    LET all == {e \in ChildEntries(p) : TRUE}
    IN  IF ~hidden THEN {e \in all : ~IsExcludedName(BaseName(e.path))} ELSE all

\* variant of SortedByLower: the names are compared as they are
SortedByLower_CaseSensitive(names) ==
    LET n == Cardinality(names)
    IN  {s \in [1..n -> names] :
            /\ \A i, j \in 1..n : i # j => s[i] # s[j]
            /\ \A i, j \in 1..n : i < j => ~StrLess(s[j], s[i])}

\* list.sort(key=str.lower) of a set of names: every order a stable sort of
\* some listing order can produce
SortedByLower(names) ==
    LET n == Cardinality(names)
    IN  {s \in [1..n -> names] :
            /\ \A i, j \in 1..n : i # j => s[i] # s[j]
            /\ \A i, j \in 1..n : i < j => ~StrLess(lower(s[j]), lower(s[i]))}

\* os.path.isdir / os.path.isfile answers for the listed entries
DirNames(p, hidden) ==
    {BaseName(e.path) : e \in {x \in ListedNames(p, hidden) : x.kind = "dir" /\ x.io # "nostat"}}

FileNames(p, hidden) ==
    {BaseName(e.path) : e \in {x \in ListedNames(p, hidden) : x.kind = "file" /\ x.io = "ok"}}

\* the activation record of one process_directory call, after its listing,
\* classification and sorting (an unlistable directory returns at once)
Frame(p, parent_id, level, dirs, files) ==
    [path |-> p, parent_id |-> parent_id, level |-> level, dirs |-> dirs, files |-> files]

Frames(p, parent_id, level, hidden) ==
    IF ~Listable(p) THEN {Frame(p, parent_id, level, <<>>, <<>>)}
    ELSE {Frame(p, parent_id, level, ds, fl) :
            ds \in SortedByLower(DirNames(p, hidden)),
            fl \in SortedByLower(FileNames(p, hidden))}

\* the entry of the file system at path p
EntryAt(p) == CHOOSE e \in fs : e.path = p

Digits == <<"0","1","2","3","4","5","6","7","8","9">>

\* str(n) for a non-negative integer
RECURSIVE str(_)
str(n) == IF n < 10 THEN <<Digits[n + 1]>> ELSE str(n \div 10) \o <<Digits[(n % 10) + 1]>>

(***************************************************************************)
(* Byte counts and their formatting.  A byte count handed to a formatter   *)
(* is a sequence of base-1024 digits, least significant first, so that     *)
(* the repeated division by 1024.0 is a shift and stays exact (a float     *)
(* holds every integer below 2^53 exactly, and dividing by a power of two  *)
(* loses nothing).                                                         *)
(***************************************************************************)
Kilo == 1024

\* the base-1024 digits of a non-negative integer
RECURSIVE Limbs(_)
Limbs(n) == IF n < Kilo THEN <<n>> ELSE <<n % Kilo>> \o Limbs(n \div Kilo)

\* size_bytes == 0
IsZero(size) == \A k \in 1..Len(size) : size[k] = 0

\* size_bytes >= 1024.0
AtLeastKilo(size) == \E k \in 2..Len(size) : size[k] # 0

\* the integer value of a digit sequence
RECURSIVE LimbValue(_)
LimbValue(size) == IF size = <<>> THEN 0 ELSE Head(size) + Kilo * LimbValue(Tail(size))

size_names == << <<"B">>, <<"K","B">>, <<"M","B">>, <<"G","B">>, <<"T","B">> >>

\* the while loop of format_size: whole is the integer part (least
\* significant digit first), frac the fraction (most significant first)
RECURSIVE DivideLoop(_, _, _)
DivideLoop(whole, frac, i) ==
    IF AtLeastKilo(whole) /\ i < Len(size_names) - 1
    THEN DivideLoop(Tail(whole), <<Head(whole)>> \o frac, i + 1)
    ELSE [whole |-> whole, frac |-> frac, i |-> i]

\* frac * m: the integer part (carry) and the remaining fraction (digits)
RECURSIVE TimesSmall(_, _)
TimesSmall(frac, m) ==
    IF frac = <<>> THEN [carry |-> 0, digits |-> <<>>]
    ELSE LET rest == TimesSmall(Tail(frac), m)
             t    == Head(frac) * m + rest.carry
         IN  [carry |-> t \div Kilo, digits |-> <<t % Kilo>> \o rest.digits]

\* a fraction compared with one half: -1 below, 0 equal, 1 above
CompareHalf(digits) ==
    IF digits = <<>> THEN -1
    ELSE IF Head(digits) > Kilo \div 2 THEN 1
    ELSE IF Head(digits) < Kilo \div 2 THEN -1
    ELSE IF \E k \in 2..Len(digits) : digits[k] # 0 THEN 1 ELSE 0

RECURSIVE Pow10(_)
Pow10(k) == IF k = 0 THEN 1 ELSE 10 * Pow10(k - 1)

\* the digits of n, padded with zeros on the left to the given width
RECURSIVE ZeroPadded(_, _)
ZeroPadded(n, width) ==
    IF width = 0 THEN <<>> ELSE ZeroPadded(n \div 10, width - 1) \o <<Digits[(n % 10) + 1]>>

\* a number of 10^-places units printed with that many decimals
Fixed(scaled, places) ==
    str(scaled \div Pow10(places))
        \o (IF places = 0 THEN <<>> ELSE <<".">> \o ZeroPadded(scaled % Pow10(places), places))

\* f"{x:.{places}f}": the nearest decimal, a tie goes to the even one
FormatFloat(whole, frac, places) ==
    LET p     == TimesSmall(frac, Pow10(places))
        floor == LimbValue(whole) * Pow10(places) + p.carry
        half  == CompareHalf(p.digits)
        up    == half = 1 \/ (half = 0 /\ floor % 2 = 1)
    IN  Fixed(IF up THEN floor + 1 ELSE floor, places)

\* variant of format_size: the loop also stops at the last but one unit
format_size_StopsAtGB(size_bytes, decimal_places) ==
    IF IsZero(size_bytes) THEN <<"0"," ","B">>
    ELSE LET d == DivideLoop(size_bytes, <<>>, 0)
             g == IF d.i = 4
                  THEN [whole |-> <<Head(d.frac)>> \o d.whole, frac |-> Tail(d.frac), i |-> 3]
                  ELSE d
         IN  FormatFloat(g.whole, g.frac, decimal_places) \o <<" ">> \o size_names[g.i + 1]

\* format_size(size_bytes, decimal_places)
format_size(size_bytes, decimal_places) ==
    IF IsZero(size_bytes) THEN <<"0"," ","B">>
    ELSE LET d == DivideLoop(size_bytes, <<>>, 0)
         IN  FormatFloat(d.whole, d.frac, decimal_places) \o <<" ">> \o size_names[d.i + 1]

\* Number.prototype.toFixed(places): the nearest decimal, a tie goes up
toFixed(whole, frac, places) ==
    LET p     == TimesSmall(frac, Pow10(places))
        floor == LimbValue(whole) * Pow10(places) + p.carry
    IN  Fixed(IF CompareHalf(p.digits) >= 0 THEN floor + 1 ELSE floor, places)

\* Math.floor(Math.log(bytes) / Math.log(1024)): the index of the
\* highest digit that is not zero
RECURSIVE LogFloor(_)
LogFloor(size) ==
    IF Len(size) <= 1 \/ ~AtLeastKilo(size) THEN 0 ELSE 1 + LogFloor(Tail(size))

\* the whole and the fraction of bytes / Math.pow(1024, i)
RECURSIVE Shifted(_, _, _)
Shifted(whole, frac, i) ==
    IF i = 0 THEN [whole |-> whole, frac |-> frac]
    ELSE Shifted(Tail(whole), <<Head(whole)>> \o frac, i - 1)

\* formatSize(bytes) of the client; sizes[i] is undefined past TB
formatSize(bytes) ==
    IF IsZero(bytes) THEN <<"0"," ","B">>
    ELSE LET i == LogFloor(bytes)
             v == Shifted(bytes, <<>>, i)
         IN  toFixed(v.whole, v.frac, 1) \o <<" ">>
                 \o (IF i < Len(size_names) THEN size_names[i + 1]
                     ELSE <<"u","n","d","e","f","i","n","e","d">>)

\* variant of DirId: the prefix of the file ids is used
DirId_FilePrefix(n) == <<"f","i","l","e","_">> \o str(n)

\* f"dir_{item_id}"
DirId(n) == <<"d","i","r","_">> \o str(n)

\* f"file_{item_id}"
FileId(n) == <<"f","i","l","e","_">> \o str(n)

\* folder_item of process_directory
folder_item(fr, dir_name, n) ==
    [ id         |-> DirId(n),
      name       |-> dir_name,
      path       |-> fr.path \o <<dir_name>>,
      size_bytes |-> calculate_folder_size(fr.path \o <<dir_name>>),
      is_dir     |-> TRUE,
      level      |-> fr.level,
      parent_id  |-> fr.parent_id,
      children   |-> <<>>,
      extension  |-> <<>>,
      icon_class |-> "folder" ]

\* file_item of process_directory
file_item(fr, file_name, n) ==
    [ id         |-> FileId(n),
      name       |-> file_name,
      path       |-> fr.path \o <<file_name>>,
      size_bytes |-> EntryAt(fr.path \o <<file_name>>).size,
      is_dir     |-> FALSE,
      level      |-> fr.level,
      parent_id  |-> fr.parent_id,
      children   |-> <<>>,
      extension  |-> lower(splitext_ext(file_name)),
      icon_class |-> get_file_icon_class(file_name, FALSE) ]

\* item_map = {item['id']: item for item in self.items}: the last item wins
ItemMapIndex(its, id) ==
    CHOOSE k \in 1..Len(its) : its[k].id = id /\ \A j \in 1..Len(its) : its[j].id = id => j <= k

\* the ids appended to the children of the item at index k by the post-pass
RECURSIVE ChildrenOf(_, _, _)
ChildrenOf(its, k, upto) ==
    IF upto = 0 THEN <<>>
    ELSE ChildrenOf(its, k, upto - 1) \o
         (IF /\ Truthy(its[upto].parent_id)
             /\ \E j \in 1..Len(its) : its[j].id = its[upto].parent_id
             /\ ItemMapIndex(its, its[upto].parent_id) = k
          THEN <<its[upto].id>> ELSE <<>>)

\* "Build parent-child relationships" at the end of scan_directory
LinkChildren(its) ==
    [k \in 1..Len(its) |->
        [its[k] EXCEPT !.children = its[k].children \o ChildrenOf(its, k, Len(its))]]

(***************************************************************************)
(* Serializer and Client Browsing Engine: pure parts                       *)
(***************************************************************************)
\* js_data of generate_enhanced_html: one record per item, in list order
js_data(its) ==
    [k \in 1..Len(its) |->
        [ id         |-> its[k].id,
          name       |-> its[k].name,
          path       |-> its[k].path,
          size_bytes |-> its[k].size_bytes,
          is_dir     |-> its[k].is_dir,
          level      |-> its[k].level,
          parent_id  |-> its[k].parent_id,
          children   |-> its[k].children,
          extension  |-> its[k].extension,
          icon_class |-> its[k].icon_class ]]

\* variant of PushedChildren: each child is put in front (unshift for push)
RECURSIVE PushedChildren_Unshift(_, _, _)
PushedChildren_Unshift(data, id, upto) ==
    IF upto = 0 THEN <<>>
    ELSE (IF Truthy(data[upto].parent_id) /\ data[upto].parent_id = id
          THEN <<data[upto].id>> ELSE <<>>)
         \o PushedChildren_Unshift(data, id, upto - 1)

\* the ids pushed onto the children of id by the second loop of buildHierarchy
RECURSIVE PushedChildren(_, _, _)
PushedChildren(data, id, upto) ==
    IF upto = 0 THEN <<>>
    ELSE PushedChildren(data, id, upto - 1) \o
         (IF Truthy(data[upto].parent_id) /\ data[upto].parent_id = id
          THEN <<data[upto].id>> ELSE <<>>)

\* buildHierarchy: window.itemMap, keyed by id, children rebuilt from parent_id
buildHierarchy(data) ==
    LET ids == {data[k].id : k \in 1..Len(data)}
        last(id) == CHOOSE k \in 1..Len(data) :
                        data[k].id = id /\ \A j \in 1..Len(data) : data[j].id = id => j <= k
    IN  [id \in ids |->
            [data[last(id)] EXCEPT !.children = PushedChildren(data, id, Len(data))]]

Filters == {"all", "folders", "files", "images", "documents", "videos", "audio"}

ImageExts ==
    { <<".","j","p","g">>, <<".","j","p","e","g">>, <<".","p","n","g">>,
      <<".","g","i","f">>, <<".","b","m","p">>, <<".","s","v","g">>,
      <<".","t","i","f","f">>, <<".","w","e","b","p">>, <<".","h","e","i","c">>,
      <<".","i","c","o">> }

DocumentExts ==
    { <<".","p","d","f">>, <<".","d","o","c">>, <<".","d","o","c","x">>,
      <<".","t","x","t">>, <<".","r","t","f">>, <<".","o","d","t">>,
      <<".","p","a","g","e","s">>, <<".","x","l","s">>, <<".","x","l","s","x">>,
      <<".","c","s","v">>, <<".","p","p","t">>, <<".","p","p","t","x">> }

\* variant of VideoExts: the list of the page lacks '.flv'
VideoExts_WithoutFlv ==
    { <<".","m","p","4">>, <<".","a","v","i">>, <<".","m","o","v">>,
      <<".","m","k","v">>, <<".","w","m","v">>,
      <<".","w","e","b","m">>, <<".","m","4","v">>, <<".","3","g","p">>,
      <<".","m","p","g">>, <<".","m","p","e","g">> }

VideoExts ==
    { <<".","m","p","4">>, <<".","a","v","i">>, <<".","m","o","v">>,
      <<".","m","k","v">>, <<".","w","m","v">>, <<".","f","l","v">>,
      <<".","w","e","b","m">>, <<".","m","4","v">>, <<".","3","g","p">>,
      <<".","m","p","g">>, <<".","m","p","e","g">> }

AudioExts ==
    { <<".","m","p","3">>, <<".","w","a","v">>, <<".","m","4","a">>,
      <<".","f","l","a","c">>, <<".","a","a","c">>, <<".","o","g","g">>,
      <<".","w","m","a">>, <<".","m","p","2">>, <<".","a","i","f","f">> }

\* variant of shouldShowItem: the search compares without lower-casing
shouldShowItem_CaseSensitive(item, filter, search) ==
    IF Truthy(search) /\ ~includes(item.name, search) THEN FALSE
    ELSE IF filter = "all" THEN TRUE
    ELSE IF filter = "folders" THEN item.is_dir
    ELSE IF filter = "files" THEN ~item.is_dir
    ELSE IF ~item.is_dir
         THEN LET ext == lower(item.extension)
              IN  CASE filter = "images"    -> ext \in ImageExts
                    [] filter = "documents" -> ext \in DocumentExts
                    [] filter = "videos"    -> ext \in VideoExts
                    [] filter = "audio"     -> ext \in AudioExts
                    [] OTHER                -> FALSE
         ELSE FALSE

\* shouldShowItem, with currentFilter and currentSearch as arguments
shouldShowItem(item, filter, search) ==
    IF Truthy(search) /\ ~includes(lower(item.name), lower(search)) THEN FALSE
    ELSE IF filter = "all" THEN TRUE
    ELSE IF filter = "folders" THEN item.is_dir
    ELSE IF filter = "files" THEN ~item.is_dir
    ELSE IF ~item.is_dir
         THEN LET ext == lower(item.extension)
              IN  CASE filter = "images"    -> ext \in ImageExts
                    [] filter = "documents" -> ext \in DocumentExts
                    [] filter = "videos"    -> ext \in VideoExts
                    [] filter = "audio"     -> ext \in AudioExts
                    [] OTHER                -> FALSE
         ELSE FALSE

\* the rows appended by the forEach of renderFolderContents
RECURSIVE ShownRows(_, _, _, _)
ShownRows(map, ids, filter, search) ==
    IF ids = <<>> THEN <<>>
    ELSE (IF Head(ids) \in DOMAIN map /\ shouldShowItem(map[Head(ids)], filter, search)
          THEN <<Head(ids)>> ELSE <<>>)
         \o ShownRows(map, Tail(ids), filter, search)

\* variant of renderFolderContents: the folder itself heads its listing
renderFolderContents_ListsFolderItself(map, folder, filter, search) ==
    [rows |-> <<folder.id>> \o ShownRows(map, folder.children, filter, search),
     placeholder |-> FALSE]

\* renderFolderContents: the content pane after the call
renderFolderContents(map, folder, filter, search) ==
    IF Len(folder.children) = 0
    THEN [rows |-> <<>>, placeholder |-> TRUE]
    ELSE [rows |-> ShownRows(map, folder.children, filter, search), placeholder |-> FALSE]

\* updateFolderStats: the numbers written into the statistics block
updateFolderStats(map, folder) ==
    LET children == folder.children
        known    == {k \in 1..Len(children) : children[k] \in DOMAIN map}
        sizes    == [k \in known |-> map[children[k]].size_bytes]
    IN  [ folders |-> Cardinality({k \in known : map[children[k]].is_dir}),
          files   |-> Cardinality({k \in known : ~map[children[k]].is_dir}),
          size    |-> formatSize(Limbs(SumOver(known, sizes))),
          total   |-> Len(children) ]

\* variant of NavRow: every row gets a toggle
NavRow_AlwaysToggle(item, level) ==
    [id |-> item.id, level |-> level, toggle |-> TRUE]

\* createNavItemElement: the row of one item
NavRow(item, level) ==
    [id |-> item.id, level |-> level,
     toggle |-> item.is_dir /\ Len(item.children) > 0]

\* renderNavItem of each of a list of child ids, in order
RECURSIVE renderNavItem(_, _, _, _)
RECURSIVE RenderNavChildren(_, _, _, _)
\* variant of renderNavItem: the current folder is opened as well
renderNavItem_OpensCurrent(map, item, level, expanded) ==
    <<NavRow(item, level)>> \o
    (IF item.is_dir /\ (item.id \in expanded \/ item.id = currentFolderId)
     THEN RenderNavChildren(map, item.children, level + 1, expanded)
     ELSE <<>>)

renderNavItem(map, item, level, expanded) ==
    <<NavRow(item, level)>> \o
    (IF item.is_dir /\ item.id \in expanded
     THEN RenderNavChildren(map, item.children, level + 1, expanded)
     ELSE <<>>)

RenderNavChildren(map, ids, level, expanded) ==
    IF ids = <<>> THEN <<>>
    ELSE (IF Head(ids) \in DOMAIN map
          THEN renderNavItem(map, map[Head(ids)], level, expanded)
          ELSE <<>>)
         \o RenderNavChildren(map, Tail(ids), level, expanded)

\* renderNavTree: the rows of the navigation pane after the call
RECURSIVE RenderRoots(_, _, _, _)
RenderRoots(data, map, upto, expanded) ==
    IF upto = 0 THEN <<>>
    ELSE RenderRoots(data, map, upto - 1, expanded) \o
         (IF ~Truthy(data[upto].parent_id)
          THEN renderNavItem(map, data[upto], 0, expanded)
          ELSE <<>>)

renderNavTree(data, map, expanded) == RenderRoots(data, map, Len(data), expanded)

\* fileData.find(item => !item.parent_id): the index of the first hit, 0 if none
FindRootItem(data) ==
    IF \E k \in 1..Len(data) : ~Truthy(data[k].parent_id)
    THEN CHOOSE k \in 1..Len(data) :
            /\ ~Truthy(data[k].parent_id)
            /\ \A j \in 1..(k - 1) : Truthy(data[j].parent_id)
    ELSE 0

\* the search terms typed into the search box
SearchTerms == {<<>>, <<"b">>}

(***************************************************************************)
(* State machine                                                           *)
(***************************************************************************)
EmptyPane == [rows |-> <<>>, placeholder |-> FALSE]

\* no scan has returned yet
NoScan == [done |-> FALSE, hidden |-> FALSE, files |-> 0, folders |-> 0, size |-> 0]

\* no helper function is called on its own
NoCall == [fn |-> "none", arg |-> <<>>, done |-> FALSE, result |-> <<>>]

\* the window, the scanner fields and the page before anything was done
Constructed ==
    /\ generate_btn = "disabled"
    /\ workers = 0
    /\ lastScan = NoScan
    /\ pc = "idle"
    /\ include_hidden = FALSE
    /\ total_files = 0
    /\ total_folders = 0
    /\ total_size = 0
    /\ items = <<>>
    /\ total_items = 0
    /\ processed = 0
    /\ item_id = 0
    /\ stack = <<>>
    /\ progress = None
    /\ fileData = <<>>
    /\ itemMap = <<>>
    /\ currentFilter = "all"
    /\ currentSearch = <<>>
    /\ expandedFolders = {}
    /\ currentFolderId = None
    /\ allExpanded = FALSE
    /\ navTree = <<>>
    /\ fileList = EmptyPane
    /\ folderStats = None

\* an unreadable root_path shows none of its entries
Init ==
    /\ call = NoCall
    /\ output_file = "absent"
    /\ fs \in Trees
    /\ root_io \in {"ok", "unreadable"}
    /\ root_io = "unreadable" => fs = {}
    /\ Constructed

Top == stack[Len(stack)]

\* the stack with its top frame replaced
ReplaceTop(fr) == [stack EXCEPT ![Len(stack)] = fr]

\* browse_directory with a directory chosen: the button is enabled, whatever
\* the worker is doing
browse_directory ==
    /\ pc \in {"idle", "scanning", "scanned", "written"}
    /\ generate_btn' = "normal"
    /\ UNCHANGED <<fs, root_io, call, output_file, workers, lastScan, pc, fileData>>
    /\ UNCHANGED scanVars
    /\ UNCHANGED clientVars

\* generate_html, the click handler of the button: a disabled button does
\* not react; the button is disabled and a worker thread is started
generate_html ==
    /\ generate_btn = "normal"
    /\ generate_btn' = "disabled"
    /\ workers' = workers + 1

\* variant of ScanBegin: self.items is not emptied
ScanBegin_KeepsItems ==
    /\ pc \in {"idle", "written"}
    /\ generate_html
    /\ \E h \in BOOLEAN :
         /\ include_hidden' = h
         /\ total_items' = CountItems(RootPath, h)
         /\ \E fr \in Frames(RootPath, None, 0, h) : stack' = <<fr>>
    /\ total_files' = 0
    /\ total_folders' = 0
    /\ total_size' = 0
    /\ processed' = 0
    /\ item_id' = 0
    /\ progress' = None
    /\ pc' = "scanning"
    /\ UNCHANGED <<fs, root_io, call, output_file, lastScan, fileData, items>>
    /\ UNCHANGED clientVars

\* scan_directory up to the first listing: the reset of the scanner fields,
\* the counting pass, and the entry into process_directory(root_path)
ScanBegin ==
    /\ pc \in {"idle", "written"}
    /\ generate_html
    /\ \E h \in BOOLEAN :
         /\ include_hidden' = h
         /\ total_items' = CountItems(RootPath, h)
         /\ \E fr \in Frames(RootPath, None, 0, h) : stack' = <<fr>>
    /\ total_files' = 0
    /\ total_folders' = 0
    /\ total_size' = 0
    /\ items' = <<>>
    /\ processed' = 0
    /\ item_id' = 0
    /\ progress' = None
    /\ pc' = "scanning"
    /\ UNCHANGED <<fs, root_io, call, output_file, lastScan, fileData>>
    /\ UNCHANGED clientVars

\* generate_html while a worker is running: a second worker is started on
\* the same DirectoryScanner; the interleaving of the two is not followed
GenerateWhileScanning ==
    /\ pc \in {"scanning", "scanned"}
    /\ generate_html
    /\ pc' = "raced"
    /\ UNCHANGED <<fs, root_io, call, output_file, lastScan, fileData>>
    /\ UNCHANGED scanVars
    /\ UNCHANGED clientVars

\* variant of ProcessDir: the folder's recursive size is added to total_size
ProcessDir_CountsFolderBytes ==
    /\ pc = "scanning"
    /\ stack # <<>>
    /\ Top.dirs # <<>>
    /\ LET fr   == Top
           item == folder_item(fr, Head(fr.dirs), item_id)
       IN  /\ items' = Append(items, item)
           /\ item_id' = item_id + 1
           /\ total_folders' = total_folders + 1
           /\ total_size' = total_size + item.size_bytes
           /\ processed' = processed + 1
           /\ progress' = <<processed + 1, total_items>>
           /\ \E sub \in Frames(item.path, item.id, fr.level + 1, include_hidden) :
                stack' = Append(ReplaceTop([fr EXCEPT !.dirs = Tail(fr.dirs)]), sub)
    /\ UNCHANGED <<fs, root_io, call, output_file, generate_btn, workers, lastScan, pc, include_hidden, total_files, total_items, fileData>>
    /\ UNCHANGED clientVars

\* one iteration of "for dir_name in dirs": the folder item is appended and
\* counted, progress is reported, and process_directory is entered for it
ProcessDir ==
    /\ pc = "scanning"
    /\ stack # <<>>
    /\ Top.dirs # <<>>
    /\ LET fr   == Top
           item == folder_item(fr, Head(fr.dirs), item_id)
       IN  /\ items' = Append(items, item)
           /\ item_id' = item_id + 1
           /\ total_folders' = total_folders + 1
           /\ processed' = processed + 1
           /\ progress' = <<processed + 1, total_items>>
           /\ \E sub \in Frames(item.path, item.id, fr.level + 1, include_hidden) :
                stack' = Append(ReplaceTop([fr EXCEPT !.dirs = Tail(fr.dirs)]), sub)
    /\ UNCHANGED <<fs, root_io, call, output_file, generate_btn, workers, lastScan, pc, include_hidden, total_files, total_size, total_items, fileData>>
    /\ UNCHANGED clientVars

\* variant of ProcessFile: the file loop does not wait for the directory loop
ProcessFile_BeforeDirs ==
    /\ pc = "scanning"
    /\ stack # <<>>
    /\ Top.files # <<>>
    /\ LET fr   == Top
           item == file_item(fr, Head(fr.files), item_id)
       IN  /\ items' = Append(items, item)
           /\ item_id' = item_id + 1
           /\ total_files' = total_files + 1
           /\ total_size' = total_size + item.size_bytes
           /\ processed' = processed + 1
           /\ progress' = <<processed + 1, total_items>>
           /\ stack' = ReplaceTop([fr EXCEPT !.files = Tail(fr.files)])
    /\ UNCHANGED <<fs, root_io, call, output_file, generate_btn, workers, lastScan, pc, include_hidden, total_folders, total_items, fileData>>
    /\ UNCHANGED clientVars

\* one iteration of "for file_name in files"
ProcessFile ==
    /\ pc = "scanning"
    /\ stack # <<>>
    /\ Top.dirs = <<>>
    /\ Top.files # <<>>
    /\ LET fr   == Top
           item == file_item(fr, Head(fr.files), item_id)
       IN  /\ items' = Append(items, item)
           /\ item_id' = item_id + 1
           /\ total_files' = total_files + 1
           /\ total_size' = total_size + item.size_bytes
           /\ processed' = processed + 1
           /\ progress' = <<processed + 1, total_items>>
           /\ stack' = ReplaceTop([fr EXCEPT !.files = Tail(fr.files)])
    /\ UNCHANGED <<fs, root_io, call, output_file, generate_btn, workers, lastScan, pc, include_hidden, total_folders, total_items, fileData>>
    /\ UNCHANGED clientVars

\* a process_directory call returns; when the outermost one returns,
\* scan_directory builds the parent-child relationships and returns too
Return ==
    /\ pc = "scanning"
    /\ stack # <<>>
    /\ Top.dirs = <<>>
    /\ Top.files = <<>>
    /\ stack' = SubSeq(stack, 1, Len(stack) - 1)
    /\ IF Len(stack) = 1
       THEN /\ items' = LinkChildren(items)
            /\ lastScan' = [done |-> TRUE, hidden |-> include_hidden,
                            files |-> total_files, folders |-> total_folders,
                            size |-> total_size]
            /\ pc' = "scanned"
       ELSE UNCHANGED <<items, lastScan, pc>>
    /\ UNCHANGED <<fs, root_io, call, output_file, generate_btn, workers, include_hidden, total_files, total_folders, total_size,
                   total_items, processed, item_id, progress, fileData>>
    /\ UNCHANGED clientVars

\* generate_enhanced_html: the payload is built and the document written,
\* or open() raises and the path keeps what it held, or write() raises after
\* open(output_file, 'w') has truncated the file; the worker shows the error
\* (pc = "failed"), ends and enables the button again.  The session is
\* followed up to the error dialog: a scan started after it runs like one
\* started from "written", with the path holding what the failure left.
GenerateHtml ==
    /\ pc = "scanned"
    /\ \/ /\ output_file' = "document"
          /\ fileData' = js_data(items)
          /\ pc' = "written"
       \/ /\ UNCHANGED <<output_file, fileData>>
          /\ pc' = "failed"
       \/ /\ output_file' = "truncated"
          /\ fileData' = <<>>
          /\ pc' = "failed"
    /\ generate_btn' = "normal"
    /\ workers' = workers - 1
    /\ UNCHANGED <<fs, root_io, call, lastScan>>
    /\ UNCHANGED scanVars
    /\ UNCHANGED clientVars

\* navigateToFolder(folderId) against a given itemMap: the new values of
\* currentFolderId, the content pane and the statistics block
navigateToFolder(map, folderId, oldList, oldStats) ==
    [ currentFolderId |-> folderId,
      fileList        |-> IF folderId \in DOMAIN map
                          THEN renderFolderContents(map, map[folderId], currentFilter, currentSearch)
                          ELSE oldList,
      folderStats     |-> IF folderId \in DOMAIN map
                          THEN updateFolderStats(map, map[folderId])
                          ELSE oldStats ]

\* initExplorer, run when the document is opened
InitExplorer ==
    /\ pc = "written"
    /\ Cardinality(fs) <= MaxViewed
    /\ LET map  == buildHierarchy(fileData)
           root == FindRootItem(fileData)
           nav  == navigateToFolder(map, fileData[root].id, fileList, folderStats)
       IN  /\ itemMap' = map
           /\ navTree' = renderNavTree(fileData, map, expandedFolders)
           /\ IF root # 0
              THEN /\ currentFolderId' = nav.currentFolderId
                   /\ fileList' = nav.fileList
                   /\ folderStats' = nav.folderStats
              ELSE UNCHANGED <<currentFolderId, fileList, folderStats>>
    /\ pc' = "loaded"
    /\ UNCHANGED <<fs, root_io, call, output_file, generate_btn, workers, lastScan, fileData, currentFilter, currentSearch, expandedFolders, allExpanded>>
    /\ UNCHANGED scanVars

\* click on a toggle rendered in the navigation pane
NavToggleClick ==
    /\ pc = "loaded"
    /\ \E k \in 1..Len(navTree) :
         /\ navTree[k].toggle
         /\ LET itemId == navTree[k].id
                flipped == IF itemId \in expandedFolders
                           THEN expandedFolders \ {itemId}
                           ELSE expandedFolders \cup {itemId}
            IN  /\ expandedFolders' = flipped
                /\ navTree' = renderNavTree(fileData, itemMap, flipped)
    /\ UNCHANGED <<fs, root_io, call, output_file, generate_btn, workers, lastScan, pc, fileData, itemMap, currentFilter, currentSearch,
                   currentFolderId, allExpanded, fileList, folderStats>>
    /\ UNCHANGED scanVars

\* click on a row of the navigation pane, outside its toggle
NavItemClick ==
    /\ pc = "loaded"
    /\ \E k \in 1..Len(navTree) :
         LET itemId == navTree[k].id
             nav    == navigateToFolder(itemMap, itemId, fileList, folderStats)
         IN  IF itemId \in DOMAIN itemMap /\ itemMap[itemId].is_dir
             THEN /\ currentFolderId' = nav.currentFolderId
                  /\ fileList' = nav.fileList
                  /\ folderStats' = nav.folderStats
             ELSE UNCHANGED <<currentFolderId, fileList, folderStats>>
    /\ UNCHANGED <<fs, root_io, call, output_file, generate_btn, workers, lastScan, pc, fileData, itemMap, currentFilter, currentSearch,
                   expandedFolders, allExpanded, navTree>>
    /\ UNCHANGED scanVars

\* click on a row of the content pane; only rows of class "folder" react
FileListClick ==
    /\ pc = "loaded"
    /\ \E k \in 1..Len(fileList.rows) :
         LET itemId == fileList.rows[k]
             nav    == navigateToFolder(itemMap, itemId, fileList, folderStats)
         IN  IF itemMap[itemId].is_dir
             THEN /\ currentFolderId' = nav.currentFolderId
                  /\ fileList' = nav.fileList
                  /\ folderStats' = nav.folderStats
             ELSE UNCHANGED <<currentFolderId, fileList, folderStats>>
    /\ UNCHANGED <<fs, root_io, call, output_file, generate_btn, workers, lastScan, pc, fileData, itemMap, currentFilter, currentSearch,
                   expandedFolders, allExpanded, navTree>>
    /\ UNCHANGED scanVars

\* variant of Rerender: the handlers leave the content pane as it was
Rerender_Stale(filter, search) == fileList

\* the re-rendering shared by the search and filter handlers
Rerender(filter, search) ==
    IF Truthy(currentFolderId) /\ currentFolderId \in DOMAIN itemMap
    THEN renderFolderContents(itemMap, itemMap[currentFolderId], filter, search)
    ELSE fileList

\* input event of the search box
SearchInput ==
    /\ pc = "loaded"
    /\ \E value \in SearchTerms :
         /\ currentSearch' = value
         /\ fileList' = Rerender(currentFilter, value)
    /\ UNCHANGED <<fs, root_io, call, output_file, generate_btn, workers, lastScan, pc, fileData, itemMap, currentFilter, expandedFolders,
                   currentFolderId, allExpanded, navTree, folderStats>>
    /\ UNCHANGED scanVars

\* click on the clear button of the search box
SearchClear ==
    /\ pc = "loaded"
    /\ currentSearch' = <<>>
    /\ fileList' = Rerender(currentFilter, <<>>)
    /\ UNCHANGED <<fs, root_io, call, output_file, generate_btn, workers, lastScan, pc, fileData, itemMap, currentFilter, expandedFolders,
                   currentFolderId, allExpanded, navTree, folderStats>>
    /\ UNCHANGED scanVars

\* click on one of the filter buttons
FilterClick ==
    /\ pc = "loaded"
    /\ \E f \in Filters :
         /\ currentFilter' = f
         /\ fileList' = Rerender(f, currentSearch)
    /\ UNCHANGED <<fs, root_io, call, output_file, generate_btn, workers, lastScan, pc, fileData, itemMap, currentSearch, expandedFolders,
                   currentFolderId, allExpanded, navTree, folderStats>>
    /\ UNCHANGED scanVars

\* variant of ExpandableIds: every directory, with or without children
ExpandableIds_EveryDirectory ==
    {fileData[k].id : k \in {j \in 1..Len(fileData) : fileData[j].is_dir}}

\* the ids the expand branch of the button adds
ExpandableIds ==
    {fileData[k].id : k \in {j \in 1..Len(fileData) :
                                fileData[j].is_dir /\ Len(fileData[j].children) > 0}}

\* variant of ExpandNavClick: the branch is chosen by what is expanded now
ExpandNavClick_ByContent ==
    /\ pc = "loaded"
    /\ LET expanded == IF expandedFolders # {} THEN {} ELSE ExpandableIds
       IN  /\ expandedFolders' = expanded
           /\ navTree' = renderNavTree(fileData, itemMap, expanded)
           /\ allExpanded' = (expandedFolders = {})
    /\ UNCHANGED <<fs, root_io, call, output_file, generate_btn, workers, lastScan, pc, fileData, itemMap, currentFilter, currentSearch,
                   currentFolderId, fileList, folderStats>>
    /\ UNCHANGED scanVars

\* click on the Expand Nav / Collapse Nav button
ExpandNavClick ==
    /\ pc = "loaded"
    /\ LET expanded == IF allExpanded THEN {} ELSE expandedFolders \cup ExpandableIds
       IN  /\ expandedFolders' = expanded
           /\ navTree' = renderNavTree(fileData, itemMap, expanded)
    /\ allExpanded' = ~allExpanded
    /\ UNCHANGED <<fs, root_io, call, output_file, generate_btn, workers, lastScan, pc, fileData, itemMap, currentFilter, currentSearch,
                   currentFolderId, fileList, folderStats>>
    /\ UNCHANGED scanVars

Next ==
    \/ browse_directory
    \/ ScanBegin
    \/ GenerateWhileScanning
    \/ ProcessDir
    \/ ProcessFile
    \/ Return
    \/ GenerateHtml
    \/ InitExplorer
    \/ NavToggleClick
    \/ NavItemClick
    \/ FileListClick
    \/ SearchInput
    \/ SearchClear
    \/ FilterClick
    \/ ExpandNavClick

Spec == Init /\ [][Next]_vars

(***************************************************************************)
(* The helper functions called on their own: format_size on a byte count,  *)
(* and the classification of one file name by the scanner (file_item)      *)
(* followed by the filters of the page (shouldShowItem, empty search).     *)
(***************************************************************************)
\* the base-1024 digits the byte counts are made of
LimbDigits == {0, 1, 256, 512, 1023}

\* byte counts below 2^53 (a float holds them exactly), highest digit not 0
ByteCounts ==
    {s \in UNION {[1..k -> LimbDigits] : k \in 1..6} :
        /\ Len(s) > 1 => s[Len(s)] # 0
        /\ Len(s) = 6 => s[6] < 8}

\* the value of decimal_places at the call sites of format_size
DecimalPlaces == {1, 2}

\* str.upper on the characters in use
upper(s) ==
    [i \in 1..Len(s) |->
        IF \E u \in DOMAIN UpperToLower : UpperToLower[u] = s[i]
        THEN CHOOSE u \in DOMAIN UpperToLower : UpperToLower[u] = s[i]
        ELSE s[i]]

\* the extensions known to the scanner or to the page, and an unknown one
KnownExtensions ==
    DOMAIN icon_map \cup ImageExts \cup DocumentExts \cup VideoExts \cup AudioExts
        \cup {<<".","x","y","z">>}

\* file names: lower-case and upper-case extensions, and a bare dot name
FileNamesToClassify ==
    {<<"f">> \o e : e \in KnownExtensions}
        \cup {<<"F">> \o upper(e) : e \in KnownExtensions}
        \cup KnownExtensions

InitHelpers ==
    /\ root_io = "ok"
    /\ output_file = "absent"
    /\ Constructed
    /\ \/ /\ fs = {}
          /\ \E s \in ByteCounts, d \in DecimalPlaces :
                call = [fn |-> "format_size", done |-> FALSE, result |-> <<>>,
                        arg |-> [size_bytes |-> s, decimal_places |-> d]]
       \/ \E name \in FileNamesToClassify :
             /\ fs = {Entry(<<name>>, "file", 1, "ok")}
             /\ call = [fn |-> "file_item", done |-> FALSE, result |-> <<>>, arg |-> name]

\* format_size(size_bytes, decimal_places) returns
FormatSizeCall ==
    /\ call.fn = "format_size"
    /\ ~call.done
    /\ call' = [call EXCEPT !.done = TRUE,
                            !.result = format_size(call.arg.size_bytes, call.arg.decimal_places)]
    /\ UNCHANGED <<fs, root_io, output_file, generate_btn, workers, lastScan, pc, fileData>>
    /\ UNCHANGED scanVars
    /\ UNCHANGED clientVars

\* the scanner builds the node of a file in root_path, and the page asks
\* shouldShowItem for it under every filter with an empty search box
ClassifyCall ==
    /\ call.fn = "file_item"
    /\ ~call.done
    /\ LET item == file_item(Frame(RootPath, None, 0, <<>>, <<>>), call.arg, 1)
       IN  call' = [call EXCEPT !.done = TRUE,
                                !.result = [item  |-> item,
                                            shown |-> {f \in Filters : shouldShowItem(item, f, <<>>)}]]
    /\ UNCHANGED <<fs, root_io, output_file, generate_btn, workers, lastScan, pc, fileData>>
    /\ UNCHANGED scanVars
    /\ UNCHANGED clientVars

NextHelpers ==
    \/ FormatSizeCall
    \/ ClassifyCall

SpecHelpers == InitHelpers /\ [][NextHelpers]_vars

(***************************************************************************)
(* The page's operations called with an id of the caller's choice, beside  *)
(* the clicks: navigateToFolder is a global function of the page, and the  *)
(* toggle branch of the click handler takes the id from the element that   *)
(* was hit.                                                                *)
(***************************************************************************)
\* the largest number of entries of a tree the direct calls are tried on
MaxCallEntries == 2

\* an id no record of the document has
UnknownId == <<"d","i","r","_","x">>

\* the ids an operation is called with
CallIds == {fileData[k].id : k \in 1..Len(fileData)} \cup {UnknownId}

\* navigateToFolder(folderId)
NavigateTo(folderId) ==
    /\ pc = "loaded"
    /\ LET nav == navigateToFolder(itemMap, folderId, fileList, folderStats)
       IN  /\ currentFolderId' = nav.currentFolderId
           /\ fileList' = nav.fileList
           /\ folderStats' = nav.folderStats
    /\ UNCHANGED <<fs, root_io, call, output_file, generate_btn, workers, lastScan, pc, fileData, itemMap, currentFilter, currentSearch,
                   expandedFolders, allExpanded, navTree>>
    /\ UNCHANGED scanVars

\* the toggle branch of the navTree click handler for toggle.dataset.itemId
ToggleNode(itemId) ==
    /\ pc = "loaded"
    /\ LET flipped == IF itemId \in expandedFolders
                      THEN expandedFolders \ {itemId}
                      ELSE expandedFolders \cup {itemId}
       IN  /\ expandedFolders' = flipped
           /\ navTree' = renderNavTree(fileData, itemMap, flipped)
    /\ UNCHANGED <<fs, root_io, call, output_file, generate_btn, workers, lastScan, pc, fileData, itemMap, currentFilter, currentSearch,
                   currentFolderId, allExpanded, fileList, folderStats>>
    /\ UNCHANGED scanVars

NavigateCall == \E id \in CallIds : NavigateTo(id)

ToggleCall == \E id \in CallIds : ToggleNode(id)

NextDirect ==
    \/ Next
    \/ NavigateCall
    \/ ToggleCall

\* the trees the direct calls are tried on
InitDirect == Init /\ Cardinality(fs) <= MaxCallEntries

SpecDirect == InitDirect /\ [][NextDirect]_vars

(***************************************************************************)
(* Properties                                                              *)
(***************************************************************************)
\* scan_directory has returned: the node list and the counters are the result
ScanDone == pc \in {"scanned", "written", "loaded"}

ItemById(its, id) == its[CHOOSE k \in 1..Len(its) : its[k].id = id]

\* the sum of size_bytes of the file nodes reachable from the node id through
\* child_ids, recursively
RECURSIVE ReachableFileSum(_, _)
ReachableFileSum(its, id) ==
    LET node == ItemById(its, id)
        idx  == 1..Len(node.children)
        part == [k \in idx |->
                    LET child == ItemById(its, node.children[k])
                    IN  IF child.is_dir THEN ReachableFileSum(its, child.id)
                        ELSE child.size_bytes]
    IN  SumOver(idx, part)

\* C1: in every scan result each directory node's size_bytes equals the sum
\* of size_bytes of the file nodes reachable from it through child_ids.
C1_FolderSizeIsSumOfFileNodes ==
    ScanDone =>
        \A k \in 1..Len(items) :
            items[k].is_dir => items[k].size_bytes = ReachableFileSum(items, items[k].id)

\* the indices of the nodes whose parent_id names no other node of the result
Parentless(its) ==
    {k \in 1..Len(its) : ~\E j \in 1..Len(its) : j # k /\ its[j].id = its[k].parent_id}

\* the number of positions of sequence s that hold x
Occurrences(s, x) == Cardinality({i \in 1..Len(s) : s[i] = x})

\* C2: every node except the root has a parent_id that references exactly one
\* other node, whose child_ids holds the child's id exactly once; child_ids
\* of every node is exactly the set of nodes whose parent_id is that node's
\* id, without duplicates.
C2_ParentChildLinkage ==
    ScanDone =>
        /\ Cardinality(Parentless(items)) <= 1
        /\ \A k \in 1..Len(items) : k \notin Parentless(items) =>
              /\ Cardinality({j \in 1..Len(items) : items[j].id = items[k].parent_id}) = 1
              /\ Occurrences(ItemById(items, items[k].parent_id).children, items[k].id) = 1
        /\ \A k \in 1..Len(items) :
              /\ Range(items[k].children)
                    = {items[j].id : j \in {i \in 1..Len(items) : items[i].parent_id = items[k].id}}
              /\ \A c \in Range(items[k].children) : Occurrences(items[k].children, c) = 1

\* C3: exactly one node has parent_id = null, it is the scan root at depth 0,
\* and every entry found directly inside root_path has it as its parent.
C3_SingleRootNode ==
    ScanDone =>
        \E r \in 1..Len(items) :
            /\ items[r].parent_id = None
            /\ items[r].level = 0
            /\ items[r].path = RootPath
            /\ \A k \in 1..Len(items) : items[k].parent_id = None => k = r
            /\ \A k \in 1..Len(items) : Len(items[k].path) = 1 => items[k].parent_id = items[r].id

\* the sum of size_bytes over the file nodes of a node list
FileBytes(its) ==
    LET files == {k \in 1..Len(its) : ~its[k].is_dir}
    IN  SumOver(files, [k \in files |-> its[k].size_bytes])

\* C4: at every progress callback and at scan completion total_files +
\* total_folders is the number of nodes collected so far and total_size is
\* the sum of size_bytes over the file nodes collected so far.
C4_CountersMatchNodes ==
    pc \in {"scanning", "scanned", "written", "loaded"} =>
        /\ total_files + total_folders = Len(items)
        /\ total_files = Cardinality({k \in 1..Len(items) : ~items[k].is_dir})
        /\ total_size = FileBytes(items)
        /\ progress # None => progress[1] = Len(items)

\* a callback has just reported a tree with both kinds of node collected
C4_Witness ==
    /\ pc = "scanning"
    /\ progress # None
    /\ total_folders >= 1
    /\ total_files >= 2
    /\ \E k \in 1..Len(items) : items[k].is_dir /\ items[k].size_bytes > 0

\* C5: for either value of include_hidden no node has a name starting with
\* '~' or '$' and no node lies beneath a directory with such a name.
C5_TempNamesAlwaysExcluded ==
    ScanDone =>
        \A k \in 1..Len(items) : \A i \in 1..Len(items[k].path) :
            /\ ~startswith(items[k].path[i], "~")
            /\ ~startswith(items[k].path[i], "$")

\* the entries a scan that includes hidden names can reach and stat
Reachable(e) ==
    /\ e.io # "nostat"
    /\ \A n \in 1..(Len(e.path) - 1) : Listable(SubSeq(e.path, 1, n))

\* the tree of the example: .secret and visible.txt directly in root_path
SecretAndVisible ==
    { Entry(<<n_secret>>, "file", 256, "ok"), Entry(<<n_visible>>, "file", 128, "ok") }

HasDotComponent(p) == \E i \in 1..Len(p) : startswith(p[i], ".")

\* C6: with include_hidden false no entry whose name starts with '.' is a
\* node, is descended into, or is counted; with include_hidden true such
\* entries are nodes; .secret and visible.txt give one file node, or two.
C6_HiddenPolicy ==
    ScanDone =>
        /\ ~include_hidden =>
              /\ \A k \in 1..Len(items) : ~HasDotComponent(items[k].path)
              /\ total_files = Cardinality({k \in 1..Len(items) :
                                    ~items[k].is_dir /\ ~HasDotComponent(items[k].path)})
              /\ total_folders = Cardinality({k \in 1..Len(items) :
                                    items[k].is_dir /\ ~HasDotComponent(items[k].path)})
              /\ total_size = FileBytes(SelectSeq(items, LAMBDA it : ~HasDotComponent(it.path)))
        /\ include_hidden =>
              \A e \in fs : startswith(BaseName(e.path), ".") /\ Reachable(e) =>
                    \E k \in 1..Len(items) : items[k].path = e.path
        /\ fs = SecretAndVisible =>
              Cardinality({k \in 1..Len(items) : ~items[k].is_dir})
                  = IF include_hidden THEN 2 ELSE 1

\* a scan without hidden files of a tree that holds a hidden file inside a
\* visible directory and a hidden directory with a file in it
C6_Witness ==
    /\ ScanDone
    /\ ~include_hidden
    /\ Entry(<<n_sub, n_secret>>, "file", 4, "ok") \in fs
    /\ Entry(<<n_hid, n_xmov>>, "file", 32, "ok") \in fs
    /\ Len(items) = 1
    /\ items[1].name = n_sub

\* C7: the adjacency the client rebuilds from parent_id alone is, for every
\* node, the ordered child_ids the scanner serialized for it; the serialized
\* list holds every scanned node once, in scanner order.
C7_ClientRebuildsSerializedChildren ==
    /\ pc \in {"written", "loaded"} =>
          /\ Len(fileData) = Len(items)
          /\ \A k \in 1..Len(items) :
                /\ fileData[k].id = items[k].id
                /\ fileData[k].parent_id = items[k].parent_id
                /\ fileData[k].children = items[k].children
          /\ \A j, k \in 1..Len(fileData) : fileData[j].id = fileData[k].id => j = k
    /\ pc = "loaded" =>
          /\ DOMAIN itemMap = {fileData[k].id : k \in 1..Len(fileData)}
          /\ \A k \in 1..Len(fileData) :
                itemMap[fileData[k].id].children = fileData[k].children

\* a loaded document in which some directory has a subdirectory and a file
C7_Witness ==
    /\ pc = "loaded"
    /\ \E id \in DOMAIN itemMap :
          /\ Len(itemMap[id].children) = 2
          /\ itemMap[itemMap[id].children[1]].is_dir
          /\ ~itemMap[itemMap[id].children[2]].is_dir

\* C8: in every client state of a non-empty document current_folder_id is
\* the id of a directory node.
C8_CurrentFolderIsDirectory ==
    (pc = "loaded" /\ fileData # <<>>) =>
        /\ currentFolderId \in DOMAIN itemMap
        /\ itemMap[currentFolderId].is_dir

\* the serialized child_ids of the node id
SerializedChildren(id) ==
    fileData[CHOOSE k \in 1..Len(fileData) : fileData[k].id = id].children

\* the direct children of the current folder that pass the filter predicate
\* for the current active_filter and search_term, in child_ids order
ExpectedRows ==
    IF currentFolderId \in DOMAIN itemMap
    THEN SelectIds(SerializedChildren(currentFolderId),
                   {id \in DOMAIN itemMap :
                        /\ itemMap[id].parent_id = currentFolderId
                        /\ shouldShowItem(itemMap[id], currentFilter, currentSearch)})
    ELSE <<>>

\* C9: after any sequence of client operations the content pane lists exactly
\* the direct children of current_folder_id that satisfy the filter
\* predicate for the current active_filter and search_term, in child_ids
\* order.
C9_ContentPaneShowsFilteredChildren ==
    pc = "loaded" => fileList.rows = ExpectedRows

\* a folder with a subdirectory and a file is shown under a filter and a
\* search term that leave the file alone
C9_Witness ==
    /\ pc = "loaded"
    /\ currentFilter = "files"
    /\ currentSearch = <<"b">>
    /\ currentFolderId \in DOMAIN itemMap
    /\ {itemMap[c].name : c \in Range(itemMap[currentFolderId].children)} = {n_in, n_BTXT}
    /\ Len(fileList.rows) = 1
    /\ itemMap[fileList.rows[1]].name = n_BTXT

\* name contains term, ignoring case
ContainsIgnoringCase(name, term) ==
    \E off \in 0..(Len(name) - Len(term)) :
        \A j \in 1..Len(term) : lower(<<name[off + j]>>) = lower(<<term[j]>>)

\* the fixed extension list of a media filter
FilterExtensions(filter) ==
    CASE filter = "images"    -> ImageExts
      [] filter = "documents" -> DocumentExts
      [] filter = "videos"    -> VideoExts
      [] filter = "audio"     -> AudioExts
      [] OTHER                -> {}

\* the filter predicate as stated
Accepts(node, filter, term) ==
    /\ term = <<>> \/ ContainsIgnoringCase(node.name, term)
    /\ \/ filter = "all"
       \/ filter = "folders" /\ node.is_dir
       \/ filter = "files" /\ ~node.is_dir
       \/ /\ filter \in {"images", "documents", "videos", "audio"}
          /\ ~node.is_dir
          /\ node.extension \in FilterExtensions(filter)

Categories ==
    {"folder", "file", "pdf", "word", "text", "excel", "powerpoint", "image",
     "video", "audio", "archive", "code", "executable"}

\* the two nodes of the filtering example, keyed by id
ExampleNodes ==
    (<<"a">> :> [id |-> <<"a">>, name |-> <<"a",".","p","n","g">>, is_dir |-> FALSE,
                 extension |-> <<".","p","n","g">>, icon_class |-> "image"]) @@
    (<<"b">> :> [id |-> <<"b">>, name |-> <<"b",".","t","x","t">>, is_dir |-> FALSE,
                 extension |-> <<".","t","x","t">>, icon_class |-> "text"])

\* the child nodes the predicate is applied to for the current folder
ShownChildren ==
    IF currentFolderId \in DOMAIN itemMap
    THEN Range(itemMap[currentFolderId].children)
    ELSE {}

\* C10: the filter predicate accepts a node iff the search term is empty or
\* contained in its name ignoring case, and the filter is all, or folders and
\* the node is a directory, or files and it is not, or a media filter and the
\* node is a file whose extension is in that filter's list; the category
\* field is never consulted; a.png and b.txt give a.png under images and
\* b.txt under search 'b'.
C10_FilterPredicate ==
    /\ pc = "loaded" =>
          /\ \A id \in DOMAIN itemMap :
                shouldShowItem(itemMap[id], currentFilter, currentSearch)
                  = Accepts(itemMap[id], currentFilter, currentSearch)
          /\ \A id \in ShownChildren : \A c \in Categories :
                shouldShowItem([itemMap[id] EXCEPT !.icon_class = c],
                               currentFilter, currentSearch)
                  = shouldShowItem(itemMap[id], currentFilter, currentSearch)
    /\ ShownRows(ExampleNodes, << <<"a">>, <<"b">> >>, "images", <<>>) = << <<"a">> >>
    /\ ShownRows(ExampleNodes, << <<"a">>, <<"b">> >>, "all", <<"b">>) = << <<"b">> >>

\* the folder holding a.png and B.TXT is shown under the documents filter
\* with a lower-case search term, and lists B.TXT alone
C10_Witness ==
    /\ pc = "loaded"
    /\ currentFilter = "documents"
    /\ currentSearch = <<"b">>
    /\ currentFolderId \in DOMAIN itemMap
    /\ {itemMap[c].name : c \in Range(itemMap[currentFolderId].children)} = {n_apng, n_BTXT}
    /\ Len(fileList.rows) = 1
    /\ itemMap[fileList.rows[1]].name = n_BTXT

\* the statistics of the rows a listing shows
ListingStats(rows) ==
    LET idx   == 1..Len(rows)
        sizes == [k \in idx |-> itemMap[rows[k]].size_bytes]
    IN  [ folders |-> Cardinality({k \in idx : itemMap[rows[k]].is_dir}),
          files   |-> Cardinality({k \in idx : ~itemMap[rows[k]].is_dir}),
          size    |-> formatSize(Limbs(SumOver(idx, sizes))),
          total   |-> Len(rows) ]

\* C11: the folder statistics (folder count, file count, total size, total
\* items) shown for the current folder are those of the listing shown in the
\* content pane under the active filter and search term, after every render.
C11_StatsFollowListing ==
    (pc = "loaded" /\ currentFolderId \in DOMAIN itemMap) =>
        folderStats = ListingStats(fileList.rows)

\* the ids of the ancestors of the node id, through parent_id
RECURSIVE AncestorIds(_)
AncestorIds(id) ==
    LET parent == itemMap[id].parent_id
    IN  IF Truthy(parent) /\ parent \in DOMAIN itemMap
        THEN {parent} \cup AncestorIds(parent)
        ELSE {}

\* the ids of the rows of the navigation pane
ShownInNav == {navTree[k].id : k \in 1..Len(navTree)}

\* C12: a node is shown in the navigation pane iff every one of its
\* ancestors is in the expanded set (a parentless node always is); a change
\* of the current folder leaves the pane as it is; a toggle flips the
\* membership of exactly one id in the expanded set and leaves the current
\* folder, the filter and the search term unchanged.
C12_NavVisibility ==
    /\ [](pc = "loaded" =>
            \A id \in DOMAIN itemMap :
                id \in ShownInNav <=> AncestorIds(id) \subseteq expandedFolders)
    /\ [][(pc = "loaded" /\ expandedFolders' = expandedFolders) => navTree' = navTree]_vars
    /\ [][(pc = "loaded" /\ expandedFolders' # expandedFolders /\ allExpanded' = allExpanded) =>
            /\ \E id \in DOMAIN itemMap :
                  /\ (id \in expandedFolders') # (id \in expandedFolders)
                  /\ expandedFolders' \ {id} = expandedFolders \ {id}
            /\ UNCHANGED <<currentFolderId, currentFilter, currentSearch>>]_vars

\* a folder is expanded and its child is shown, while the child's own
\* child stays hidden although the child is the current folder
C12_Witness ==
    /\ pc = "loaded"
    /\ \E c \in DOMAIN itemMap :
          /\ AncestorIds(c) # {}
          /\ c \in ShownInNav
          /\ c = currentFolderId
          /\ \E h \in DOMAIN itemMap : c \in AncestorIds(h) /\ h \notin ShownInNav

\* the ids of the directories of the document that have at least one child
DirectoriesWithChildren ==
    {id \in DOMAIN itemMap :
        /\ itemMap[id].is_dir
        /\ \E c \in DOMAIN itemMap : itemMap[c].parent_id = id}

\* C13: right after Expand-all the expanded set is exactly the set of ids of
\* the directories with at least one child, whatever it held before; right
\* after Collapse-all it is empty.
C13_ExpandAllCollapseAll ==
    [][(pc = "loaded" /\ allExpanded' # allExpanded) =>
          IF allExpanded'
          THEN expandedFolders' = DirectoriesWithChildren
          ELSE expandedFolders' = {}]_vars

\* Expand-all has been clicked in a document that has a directory with a
\* child and a directory without one
C13_Witness ==
    /\ pc = "loaded"
    /\ allExpanded
    /\ expandedFolders # {}
    /\ \E d \in DOMAIN itemMap : itemMap[d].is_dir /\ d \notin expandedFolders

\* C14: at every call of the progress callback the total passed is the one
\* total of the counting pass, and the processed count does not exceed it,
\* for every tree and either value of include_hidden.
C14_ProgressNeverOvershoots ==
    progress # None =>
        /\ progress[2] = total_items
        /\ progress[1] <= progress[2]

\* C15: for every tree whose entries are all readable, and either value of
\* include_hidden, the entries counted into total_items are exactly the
\* entries emitted as nodes: when the scan has returned, the processed count
\* of the last callback, total_items and the number of nodes are equal.
C15_CountingMatchesPopulation ==
    (ScanDone /\ \A e \in fs : e.io = "ok") =>
        /\ processed = total_items
        /\ total_items = Len(items)

\* the entry answers a stat or a listing with an I/O failure
Failed(e) == e.io \in {"nostat", "nolist"}

\* the entry lies below a directory that failed
BelowFailed(e) ==
    \E n \in 1..(Len(e.path) - 1) :
        \E d \in fs : d.path = SubSeq(e.path, 1, n) /\ Failed(d)

\* the entry, or a directory above it, is excluded by the hidden-entry policy
ExcludedByPolicy(e) ==
    ~include_hidden /\ \E i \in 1..Len(e.path) : IsExcludedName(e.path[i])

\* the entries a scan has to emit when failures omit only the failed entries
Survivors == {e \in fs : ~Failed(e) /\ ~BelowFailed(e) /\ ~ExcludedByPolicy(e)}

EmittedPaths == {items[k].path : k \in 1..Len(items)}

\* C16: a stat or listing failure of one entry omits only that entry (and
\* what lies below it) from the result: when the scan has returned, no
\* failed entry is a node, every other entry the policy admits is a node,
\* and the totals count the other entries alone.
C16_FailureOmitsOnlyTheEntry ==
    ScanDone =>
        /\ \A e \in fs : Failed(e) => e.path \notin EmittedPaths
        /\ \A e \in Survivors : e.path \in EmittedPaths
        /\ total_folders = Cardinality({e \in Survivors : e.kind = "dir"})
        /\ total_files = Cardinality({e \in Survivors : e.kind = "file"})
        /\ total_size = SumOver({e \in Survivors : e.kind = "file"},
                                [e \in Survivors |-> e.size])

\* path p is a proper prefix of path q
IsProperPrefix(p, q) == Len(p) < Len(q) /\ SubSeq(q, 1, Len(p)) = p

\* the node at index n belongs to the subtree of a subdirectory of the
\* directory node at index d
InSubdirectorySubtree(n, d) ==
    /\ IsProperPrefix(items[d].path, items[n].path)
    /\ \/ Len(items[n].path) > Len(items[d].path) + 1
       \/ items[n].is_dir

\* C20: in the emitted node list every directory node precedes all of its
\* descendants, and for every directory D the nodes of the subtrees of D's
\* subdirectories precede every file node that is a direct child of D.
C20_PreOrderDirectoriesFirst ==
    \A d \in 1..Len(items) : items[d].is_dir =>
        /\ \A n \in 1..Len(items) :
              IsProperPrefix(items[d].path, items[n].path) => d < n
        /\ \A f \in 1..Len(items) :
              (~items[f].is_dir /\ ParentPath(items[f].path) = items[d].path) =>
                  \A n \in 1..Len(items) : InSubdirectorySubtree(n, d) => n < f

\* a directory with a subdirectory holding a file, and a file of its own,
\* has been scanned: four nodes
C20_Witness ==
    /\ ScanDone
    /\ Len(items) = 4
    /\ \E d, s, n, f \in 1..Len(items) :
          /\ items[d].is_dir /\ items[s].is_dir
          /\ ParentPath(items[s].path) = items[d].path
          /\ ~items[n].is_dir /\ ParentPath(items[n].path) = items[s].path
          /\ ~items[f].is_dir /\ ParentPath(items[f].path) = items[d].path
          /\ d < s /\ s < n /\ n < f

\* the document has been written by generate_enhanced_html
DocumentWritten == pc \in {"written", "loaded"}

\* C17: when root_path is not readable, the scan does not return a node list
\* and counters as a success, and no document is written.
C17_UnreadableRootFails ==
    root_io # "ok" => (~ScanDone /\ ~DocumentWritten)

\* C18: over every interleaving of Browse, Generate and the completion of a
\* worker, at most one scan-and-generate worker operates on the
\* DirectoryScanner at any time.
C18_OneWorkerAtATime == workers <= 1

\* C19: a scan of the unmodified tree with the include_hidden value of the
\* scan before it, on the same DirectoryScanner, returns the node list
\* (ids, order, field values) the document of the scan before was built
\* from, and the same counters: nothing of the earlier scan accumulates.
C19_RescanReproduces ==
    [][(pc = "scanning" /\ pc' = "scanned" /\ lastScan.done
            /\ lastScan.hidden = include_hidden) =>
          /\ js_data(items') = fileData
          /\ total_files' = lastScan.files
          /\ total_folders' = lastScan.folders
          /\ total_size' = lastScan.size]_vars

\* a second scan of a tree with files and folders has returned while the
\* document of the first is still the one on disk
C19_Witness ==
    /\ pc = "scanned"
    /\ fileData # <<>>
    /\ lastScan.done
    /\ Len(items) >= 3
    /\ total_files >= 1
    /\ total_folders >= 1
    /\ js_data(items) = fileData

HasPrefix(id, prefix) ==
    Len(id) >= Len(prefix) /\ SubSeq(id, 1, Len(prefix)) = prefix

\* C22: at every point of a scan the ids of the nodes collected so far are
\* pairwise distinct, every directory id starts with dir_ and every file id
\* with file_, so that no directory id equals a file id; entries skipped for
\* an I/O failure do not change this.
C22_IdsDistinctAndNamespaced ==
    pc \in {"scanning", "scanned"} =>
        /\ \A j, k \in 1..Len(items) : j # k => items[j].id # items[k].id
        /\ \A k \in 1..Len(items) :
              IF items[k].is_dir
              THEN HasPrefix(items[k].id, <<"d","i","r","_">>)
                   /\ ~HasPrefix(items[k].id, <<"f","i","l","e","_">>)
              ELSE HasPrefix(items[k].id, <<"f","i","l","e","_">>)
                   /\ ~HasPrefix(items[k].id, <<"d","i","r","_">>)

\* a scan is under way in a tree with an entry that cannot be stat-ed; a
\* directory and a file have been collected so far
C22_Witness ==
    /\ pc = "scanning"
    /\ \E e \in fs : e.io = "nostat"
    /\ \E j, k \in 1..Len(items) : items[j].is_dir /\ ~items[k].is_dir

\* C23: when the scanned document has no entries (an empty root directory),
\* after the load the current folder is the root folder, the content pane
\* shows the empty-folder placeholder and the statistics show 0 folders,
\* 0 files, size "0 B" and 0 items in total.
C23_EmptyRootShowsPlaceholder ==
    (pc = "loaded" /\ Len(fileData) = 0) =>
        /\ currentFolderId # None
        /\ fileList.placeholder
        /\ folderStats # <<>>
        /\ folderStats = [folders |-> 0, files |-> 0, size |-> <<"0"," ","B">>, total |-> 0]

\* the decimal digit a character stands for
DigitValue(c) == CHOOSE v \in 0..9 : Digits[v + 1] = c

\* the number a sequence of decimal digits stands for
RECURSIVE ParseNat(_)
ParseNat(s) ==
    IF s = <<>> THEN 0
    ELSE 10 * ParseNat(SubSeq(s, 1, Len(s) - 1)) + DigitValue(s[Len(s)])

\* the first position of the character c in s, 0 when there is none
IndexOf(s, c) ==
    IF \E i \in 1..Len(s) : s[i] = c
    THEN CHOOSE i \in 1..Len(s) : s[i] = c /\ \A j \in 1..(i - 1) : s[j] # c
    ELSE 0

\* how often n has to be divided by 1024 to fall below 1024, 4 at most
Divisions(n) ==
    CHOOSE k \in 0..4 :
        /\ k = 4 \/ \A j \in (k + 2)..Len(n) : n[j] = 0
        /\ k = 0 \/ \E j \in (k + 1)..Len(n) : n[j] # 0

\* text is n / 1024^k printed with one decimal and the k-th unit: digits, a
\* point, one digit, a space and the unit, the number being a nearest tenth
PrintsScaled(text, n, k) ==
    LET point == IndexOf(text, ".")
        space == IndexOf(text, " ")
    IN  /\ point > 1
        /\ space = point + 2
        /\ \A i \in (1..(point - 1)) \cup {point + 1} : text[i] \in Range(Digits)
        /\ SubSeq(text, space + 1, Len(text)) = size_names[k + 1]
        /\ LET whole  == LimbValue(SubSeq(n, k + 1, Len(n)))
               frac   == [i \in 1..k |-> n[k + 1 - i]]
               twenty == TimesSmall(frac, 20)
               tenths == 10 * (ParseNat(SubSeq(text, 1, point - 1)) - whole)
                            + DigitValue(text[point + 1])
           IN  /\ tenths \in 0..10
               /\ twenty.carry >= 2 * tenths - 1
               /\ \/ twenty.carry < 2 * tenths + 1
                  \/ twenty.carry = 2 * tenths + 1 /\ IsZero(twenty.digits)

\* C26: format_size(n) of a non-negative byte count n is "0 B" for 0 and
\* otherwise n divided by 1024 as often as needed to fall below 1024 (four
\* times at most, so TB is the last unit), printed with one decimal and the
\* unit B, KB, MB, GB or TB; 1536 gives "1.5 KB" and 1073741824 "1.0 GB".
C26_FormatSize ==
    /\ format_size(<<512, 1>>, 1) = <<"1",".","5"," ","K","B">>
    /\ format_size(<<0, 0, 0, 1>>, 1) = <<"1",".","0"," ","G","B">>
    /\ (call.fn = "format_size" /\ call.done /\ call.arg.decimal_places = 1) =>
          LET n == call.arg.size_bytes
          IN  IF IsZero(n) THEN call.result = <<"0"," ","B">>
              ELSE PrintsScaled(call.result, n, Divisions(n))

\* a byte count of 2^50 + 512 * 2^40 was formatted as "1536.0 TB"
C26_Witness ==
    /\ call.fn = "format_size"
    /\ call.done
    /\ call.arg.decimal_places = 1
    /\ call.arg.size_bytes = <<0, 0, 0, 0, 512, 1>>
    /\ call.result = <<"1","5","3","6",".","0"," ","T","B">>

\* C30: a file the scanner classifies as image, video or audio (icon_class)
\* is accepted by the Images, Videos or Audio filter of the page, in this
\* order, with an empty search box, and rejected by the other two of them.
C30_MediaClassesMatchFilters ==
    (call.fn = "file_item" /\ call.done) =>
        LET class == call.result.item.icon_class
            media == call.result.shown \cap {"images", "videos", "audio"}
        IN  /\ class = "image" => media = {"images"}
            /\ class = "video" => media = {"videos"}
            /\ class = "audio" => media = {"audio"}

\* F.FLV was classified as video and is shown under the Videos filter
C30_Witness ==
    /\ call.fn = "file_item"
    /\ call.done
    /\ call.arg = <<"F",".","F","L","V">>
    /\ call.result.item.icon_class = "video"
    /\ "videos" \in call.result.shown

\* C24: navigateToFolder and the toggle applied to an id that no node of the
\* rebuilt tree has are no-ops: the current folder, the expanded set, the
\* filter, the search term and what the two panes and the statistics block
\* show are left as they were.
C24_UnknownIdIsNoOp ==
    [][(NavigateTo(UnknownId) \/ ToggleNode(UnknownId)) =>
          UNCHANGED <<currentFolderId, expandedFolders, currentFilter, currentSearch,
                      fileList, navTree, folderStats>>]_vars

\* C25: when writing the document fails, the failure is shown and the path
\* of the document is not left with a half-written document: it holds what
\* it held before (or nothing) or a complete document.
C25_NoHalfWrittenDocument ==
    /\ output_file \in {"absent", "document"}
    /\ pc = "written" => output_file = "document"

\* C27: in every state of the page every item listed in the content pane has
\* a parent_id that is not null: no record lying directly in the scanned root
\* is ever listed there.
C27_ListedItemsHaveParent ==
    pc = "loaded" =>
        \A k \in 1..Len(fileList.rows) : Truthy(itemMap[fileList.rows[k]].parent_id)

\* the content pane lists the two children of a folder lying directly in
\* the scanned root
C27_Witness ==
    /\ pc = "loaded"
    /\ currentFolderId \in DOMAIN itemMap
    /\ itemMap[currentFolderId].parent_id = None
    /\ Len(fileList.rows) = 2

\* C28: in every state of the page reached by clicks (toggles, the expand
\* button, navigation, filter and search) the expanded set holds only ids of
\* directories that have at least one child.
C28_ExpandedAreDirectoriesWithChildren ==
    pc = "loaded" => expandedFolders \subseteq DirectoriesWithChildren

\* a folder was expanded by its toggle, the button not having been pressed
C28_Witness ==
    /\ pc = "loaded"
    /\ ~allExpanded
    /\ Cardinality(expandedFolders) = 1
    /\ Cardinality(DirectoriesWithChildren) = 2

\* C29: the presses of the expand/collapse button alternate strictly between
\* Expand-all and Collapse-all, beginning with Expand-all, whatever toggles
\* come in between: the branch taken follows the flag allExpanded alone,
\* every press flips the flag, and no other step changes it.
C29_ButtonAlternates ==
    /\ [](pc # "loaded" => ~allExpanded)
    /\ [][ExpandNavClick =>
            /\ allExpanded' = ~allExpanded
            /\ IF allExpanded
               THEN expandedFolders' = {}
               ELSE DirectoriesWithChildren \subseteq expandedFolders']_vars
    /\ [][allExpanded' # allExpanded => ExpandNavClick]_vars
    /\ [][NavToggleClick => allExpanded' = allExpanded]_vars

\* after Expand-all the only expandable folder was collapsed by its toggle:
\* nothing is expanded, and the next press is still a Collapse-all
C29_Witness ==
    /\ pc = "loaded"
    /\ allExpanded
    /\ expandedFolders = {}
    /\ DirectoriesWithChildren # {}

====
